---------------------------- MODULE Spec2Model ----------------------------
(***************************************************************************)
(* A model of the PopupModal component                                     *)
(* (src/components/media/PopupModal.tsx): its props, its React state, the  *)
(* document-level mousedown listener, the two fetch effects and the render *)
(* function.  One render pass (render, commit, flush of the passive        *)
(* effects) is one step.                                                   *)
(***************************************************************************)
EXTENDS Integers, Sequences, FiniteSets, Bags, TLC

\* ------------------------------------------------------------------ bounds
\* At most this many get() promises are pending at once.
MaxInFlight == 2

\* ------------------------------------------------------------ value domains
\* The media items the host passes as the media prop.
Medias ==
    {[id |-> "a", type |-> "movie"], [id |-> "a", type |-> "show"],
     [id |-> "b", type |-> "movie"], [id |-> "b", type |-> "other"]}
\* Identities of the function passed as the onClose prop.
Handlers == {"f", "g"}
Targets == {"inside", "outside"}

Null == "null"
ErrData == "Failed to fetch media data"
ErrInfo == "Failed to fetch content ratings or release dates"

NullPath == [type |-> "none", id |-> "none", suffix |-> "none"]
NoMedia == [id |-> "none", type |-> "none"]
NoArg == [cell |-> "none"]
Pending == "pending"
NoEvent ==
    [name |-> "none", target |-> "none", calls |-> 0, added |-> 0, removed |-> 0]

VARIABLES
    mounted,     \* the component instance exists
    isVisible,   \* props of the last render
    onClose,
    media,
    style,       \* useState: style
    data,        \* useState: data (the response it holds, by request path)
    mediaInfo,   \* useState: mediaInfo
    error,       \* useState: error
    dirty,       \* a state update is queued and no render has consumed it yet
    view,        \* what the last render returned: "null", "error" or "body"
    modalRef,    \* modalRef.current is set
    listeners,   \* bag of mousedown listeners on document, by captured onClose
    inflight,    \* bag of pending get() promises
    failedCur,   \* a fetch for the current (id, type, visible) key has failed
    ev,          \* what the last step was and what it called
    arg,         \* the values one cell of the body is rendered from
    result       \* what that cell shows

compVars ==
    <<mounted, isVisible, onClose, media, style, data, mediaInfo, error, dirty,
      view, modalRef, listeners, inflight, failedCur, ev>>
cellVars == <<arg, result>>
vars == <<compVars, cellVars>>

\* ---------------------------------------------------------------- helpers
Hidden == [opacity |-> 0, visibility |-> "hidden"]
Shown == [opacity |-> 1, visibility |-> "visible"]

\* media.type === "show" ? "tv" : media.type
mediaTypePath(type) == IF type = "show" THEN "tv" ELSE type

\* media.type === "show" ? "content_ratings" : "release_dates"
endpointSuffix(type) == IF type = "show" THEN "content_ratings" ELSE "release_dates"

DataPath(m) == [type |-> mediaTypePath(m.type), id |-> m.id, suffix |-> ""]
InfoPath(m) ==
    [type |-> mediaTypePath(m.type), id |-> m.id, suffix |-> endpointSuffix(m.type)]

\* fetchData without its early return on !isVisible.
fetchDataAlways(vis, m) == {[kind |-> "data", path |-> DataPath(m)]}

\* The fetch started by fetchData for props (vis, m), if any.
fetchData(vis, m) ==
    IF ~vis THEN {}
    ELSE {[kind |-> "data", path |-> DataPath(m)]}

\* The fetch started by fetchContentRatingsOrReleaseDates, if any.
fetchContentRatingsOrReleaseDates(vis, m) ==
    IF ~vis \/ (m.type # "show" /\ m.type # "movie") THEN {}
    ELSE {[kind |-> "info", path |-> InfoPath(m)]}

\* The listener effect with isVisible added to its dependency array.
ListenerDepsWithVisible(first, oc, vis) ==
    first \/ oc # onClose \/ vis # isVisible

\* Dependency arrays of the effects, compared with the previous render.
ListenerDepsChanged(first, oc, vis) == first \/ oc # onClose
StyleDepsChanged(first, vis) == first \/ vis # isVisible
FetchDepsChanged(first, vis, m) ==
    first \/ m.id # media.id \/ m.type # media.type \/ vis # isVisible

\* document.addEventListener / removeEventListener of a handler closing over h.
Register(L, h) == L (+) SetToBag({h})
\* An effect cleanup that forgets removeEventListener.
CleanupNothing(L, h) == L
Cleanup(L, h) == L (-) SetToBag({h})

\* handleClickOutside without the contains() test.
handleClickAnyTarget(ref, target) == IF ref THEN 1 ELSE 0
\* handleClickOutside without the test of modalRef.current.
handleClickNoRef(ref, target) == IF target # "inside" THEN 1 ELSE 0

\* The number of onClose calls one handleClickOutside makes.
handleClickOutside(ref, target) ==
    IF ref /\ target # "inside" THEN 1 ELSE 0

\* The fade effect's setStyle.
StyleEffect(vis) == IF vis THEN Shown ELSE Hidden

\* A render function that returns null as soon as isVisible is false.
RenderOutputNoFade(vis, st, err) ==
    IF ~vis THEN "null"
    ELSE IF err # Null THEN "error"
    ELSE "body"

\* The early returns of the render function.
RenderOutput(vis, st, err) ==
    IF ~vis /\ st.visibility = "hidden" THEN "null"
    ELSE IF err # Null THEN "error"
    ELSE "body"

\* The fetches whose key (id, type, visible) is that of props (vis, m).
ForKey(vis, m) ==
    IF vis THEN {[kind |-> "data", path |-> DataPath(m)],
                 [kind |-> "info", path |-> InfoPath(m)]}
    ELSE {}

\* A continuation that drops the response of a fetch for another key.
StoredIfCurrent(r, old) ==
    IF r \in ForKey(isVisible, media) THEN r.path ELSE old

\* The value a resolved fetch stores (setData / setMediaInfo).
StoredOnSuccess(r, old) == r.path

\* ------------------------------------------------------------------- Init
InitComponent ==
    /\ mounted = FALSE
    /\ isVisible = FALSE
    /\ onClose = "f"
    /\ media = NoMedia
    /\ style = Hidden
    /\ data = NullPath
    /\ mediaInfo = NullPath
    /\ error = Null
    /\ dirty = FALSE
    /\ view = "none"
    /\ modalRef = FALSE
    /\ listeners = EmptyBag
    /\ inflight = EmptyBag
    /\ failedCur = FALSE
    /\ ev = NoEvent

Init ==
    /\ InitComponent
    /\ arg = NoArg
    /\ result = Pending

\* ---------------------------------------------------------------- actions
\* One render pass with props (vis, oc, m): render with the current state,
\* commit (the ref), then the passive effects whose dependencies changed.
RenderPass(first, vis, oc, m) ==
    LET out == RenderOutput(vis, style, error)
        depsL == ListenerDepsChanged(first, oc, vis)
        depsS == StyleDepsChanged(first, vis)
        depsF == FetchDepsChanged(first, vis, m)
        started ==
            IF depsF
            THEN fetchData(vis, m) \cup fetchContentRatingsOrReleaseDates(vis, m)
            ELSE {}
        cleaned == IF first THEN listeners ELSE Cleanup(listeners, onClose)
    IN  /\ BagCardinality(inflight) + Cardinality(started) <= MaxInFlight
        /\ mounted' = TRUE
        /\ isVisible' = vis
        /\ onClose' = oc
        /\ media' = m
        /\ view' = out
        /\ modalRef' = (out = "body")
        /\ listeners' = IF depsL THEN Register(cleaned, oc) ELSE listeners
        /\ style' = IF depsS THEN StyleEffect(vis) ELSE style
        /\ dirty' = depsS
        /\ inflight' = inflight (+) SetToBag(started)
        /\ failedCur' = IF depsF THEN FALSE ELSE failedCur
        /\ UNCHANGED <<data, mediaInfo, error, cellVars>>
        /\ ev' = [NoEvent EXCEPT !.name = "render",
                                 !.added = IF depsL THEN 1 ELSE 0,
                                 !.removed = IF depsL /\ ~first THEN 1 ELSE 0]

\* The host mounts the component.
Mount ==
    /\ ~mounted
    /\ \E vis \in BOOLEAN, oc \in Handlers, m \in Medias :
           RenderPass(TRUE, vis, oc, m)

\* The host renders the component again, with any props.
ParentRender ==
    /\ mounted
    /\ \E vis \in BOOLEAN, oc \in Handlers, m \in Medias :
           RenderPass(FALSE, vis, oc, m)

\* React renders the component again because a state update is queued.
StateRender ==
    /\ mounted
    /\ dirty
    /\ RenderPass(FALSE, isVisible, onClose, media)

\* A pending get() settles; the continuation of the async function runs.
Resolve ==
    /\ mounted
    /\ \E r \in BagToSet(inflight), ok \in BOOLEAN :
        /\ inflight' = inflight (-) SetToBag({r})
        /\ IF ok
           THEN /\ data' = IF r.kind = "data" THEN StoredOnSuccess(r, data) ELSE data
                /\ mediaInfo' =
                       IF r.kind = "info" THEN StoredOnSuccess(r, mediaInfo)
                       ELSE mediaInfo
                /\ error' = Null
                /\ dirty' = TRUE
                /\ failedCur' = failedCur
           ELSE /\ error' = IF r.kind = "data" THEN ErrData ELSE ErrInfo
                /\ dirty' = (dirty \/ error' # error)
                /\ failedCur' = (failedCur \/ r \in ForKey(isVisible, media))
                /\ UNCHANGED <<data, mediaInfo>>
        /\ ev' = [NoEvent EXCEPT !.name = "resolve"]
        /\ UNCHANGED <<mounted, isVisible, onClose, media, style, view, modalRef,
                       listeners, cellVars>>

\* A mousedown is dispatched on the document: every registered listener runs.
Mousedown ==
    /\ \E target \in (IF modalRef THEN Targets ELSE {"outside"}) :
           ev' = [NoEvent EXCEPT
                      !.name = "mousedown",
                      !.target = target,
                      !.calls = BagCardinality(listeners)
                                    * handleClickOutside(modalRef, target)]
    /\ UNCHANGED <<mounted, isVisible, onClose, media, style, data, mediaInfo,
                   error, dirty, view, modalRef, listeners, inflight, failedCur,
                   cellVars>>

\* The host unmounts the component: the effect cleanups run, the ref is
\* detached and the instance's state is dropped.  Promises still pending
\* settle later into the dropped instance, where setState does nothing.
Unmount ==
    /\ mounted
    /\ mounted' = FALSE
    /\ listeners' = Cleanup(listeners, onClose)
    /\ isVisible' = FALSE
    /\ onClose' = "f"
    /\ media' = NoMedia
    /\ style' = Hidden
    /\ data' = NullPath
    /\ mediaInfo' = NullPath
    /\ error' = Null
    /\ dirty' = FALSE
    /\ view' = "none"
    /\ modalRef' = FALSE
    /\ inflight' = EmptyBag
    /\ failedCur' = FALSE
    /\ ev' = [NoEvent EXCEPT !.name = "unmount", !.removed = 1]
    /\ UNCHANGED cellVars

Next ==
    \/ Mount
    \/ ParentRender
    \/ StateRender
    \/ Resolve
    \/ Mousedown
    \/ Unmount

Spec == Init /\ [][Next]_vars

\* ------------------------------------------------------- the runtime cell
\* The longest runtime, in minutes, a fetched item is given.
MaxRuntime == 150

\* formatRuntime without the % 60.
formatRuntimeNoMod(runtime) ==
    LET hours == runtime \div 60
        minutes == runtime
    IN  IF hours > 0
        THEN ToString(hours) \o "h " \o ToString(minutes) \o "m"
        ELSE ToString(minutes) \o "m"

formatRuntime(runtime) ==
    LET hours == runtime \div 60
        minutes == runtime % 60
    IN  IF hours > 0
        THEN ToString(hours) \o "h " \o ToString(minutes) \o "m"
        ELSE ToString(minutes) \o "m"

\* media.type === "movie" ? (data?.runtime ? formatRuntime(..) : <Skeleton/>) : null
\* d.has is false for data === null and for a response without a runtime.
RuntimeCell(type, d) ==
    IF type = "movie"
    THEN IF d.has /\ d.runtime # 0 THEN formatRuntime(d.runtime) ELSE "Skeleton"
    ELSE "nothing"

RuntimeArgs ==
    {[cell |-> "runtime", type |-> t, data |-> [has |-> TRUE, runtime |-> r]] :
        t \in {"movie", "show"}, r \in 0..MaxRuntime}
    \cup {[cell |-> "runtime", type |-> t, data |-> [has |-> FALSE, runtime |-> 0]] :
        t \in {"movie", "show"}}

InitRuntime ==
    /\ InitComponent
    /\ arg \in RuntimeArgs
    /\ result = Pending

RenderRuntime ==
    /\ arg.cell = "runtime"
    /\ result = Pending
    /\ result' = RuntimeCell(arg.type, arg.data)
    /\ UNCHANGED <<compVars, arg>>

NextRuntime == RenderRuntime

SpecRuntime == InitRuntime /\ [][NextRuntime]_vars

\* ------------------------------------------------- the certification cell
\* The longest release_dates array of one region's entry.
MaxReleases == 2

\* The iso_3166_1 codes of a response's results, in order.
RegionLayouts ==
    {<<>>, <<"US">>, <<"FR">>, <<"US", "FR">>, <<"FR", "US">>, <<"US", "US">>}
Certifications == {"", "R", "PG"}
ReleaseDates == {"2019-03-01T00:00:00.000Z", "2020-07-15T00:00:00.000Z"}

\* new Date(release_date), as the number the comparison of two Dates uses.
DateValue(d) ==
    CASE d = "2019-03-01T00:00:00.000Z" -> 17956
      [] d = "2020-07-15T00:00:00.000Z" -> 18458

Releases == [certification : Certifications, release_date : ReleaseDates]
ReleaseLists == UNION {[1..n -> Releases] : n \in 0..MaxReleases}

\* One element of results.  rating "" stands for a missing or empty rating,
\* release_dates <<>> for a missing or empty array: the code reads both the
\* same way.  /movie/{id}/release_dates gives entries with release_dates,
\* /tv/{id}/content_ratings entries with a rating.
EntriesOf(iso) ==
    {[iso_3166_1 |-> iso, rating |-> "", release_dates |-> l] : l \in ReleaseLists}
    \cup {[iso_3166_1 |-> iso, rating |-> "TV-14", release_dates |-> <<>>]}

ResultsOf(layout) ==
    IF Len(layout) = 0 THEN {<<>>}
    ELSE IF Len(layout) = 1 THEN [1..1 -> EntriesOf(layout[1])]
    ELSE EntriesOf(layout[1]) \X EntriesOf(layout[2])

\* mediaInfo before any response is stored: null.
NoInfo == [fetched |-> FALSE, results |-> <<>>]

\* A response with results r.
MediaInfoOf(r) == [fetched |-> TRUE, results |-> r]

NoEntry == [iso_3166_1 |-> "none", rating |-> "", release_dates |-> <<>>]

\* mediaInfo?.results?.find((result) => result.iso_3166_1 === "US")
FindUS(info) ==
    LET hits == {i \in 1..Len(info.results) : info.results[i].iso_3166_1 = "US"}
    IN  IF hits = {} THEN NoEntry
        ELSE info.results[CHOOSE i \in hits : \A j \in hits : i <= j]

IsCertified(date) == date.certification # ""

\* The callback with >= : on equal dates the earlier element is kept.
LaterReleaseFirstWins(prev, current) ==
    IF DateValue(prev.release_date) >= DateValue(current.release_date)
    THEN prev
    ELSE current

\* The callback of reduce: the later of two releases.
LaterRelease(prev, current) ==
    IF DateValue(prev.release_date) > DateValue(current.release_date)
    THEN prev
    ELSE current

\* certifiedReleases.reduce(callback): the first element starts as prev.
RECURSIVE Reduce(_, _)
Reduce(prev, rest) ==
    IF rest = <<>> THEN prev
    ELSE Reduce(LaterRelease(prev, Head(rest)), Tail(rest))

displayCertification(info) ==
    LET usReleaseInfo == FindUS(info)
        certifiedReleases == SelectSeq(usReleaseInfo.release_dates, IsCertified)
    IN  IF Len(certifiedReleases) > 0
        THEN Reduce(Head(certifiedReleases), Tail(certifiedReleases)).certification
        ELSE "Not Rated"

\* releaseInfo && releaseInfo.rating ? releaseInfo.rating : "NR"
showRating(info) ==
    LET releaseInfo == FindUS(info)
    IN  IF releaseInfo.rating # "" THEN releaseInfo.rating ELSE "NR"

\* media.type === "movie" ? displayCertification : (the show's rating)
CertificationCell(type, info) ==
    IF type = "movie"
    THEN IF displayCertification(info) # "" THEN displayCertification(info)
         ELSE "Skeleton"
    ELSE showRating(info)

CertArg(t, i) == [cell |-> "certification", type |-> t, mediaInfo |-> i]

InitCert ==
    /\ InitComponent
    /\ \E t \in {"movie", "show"} :
          \/ arg = CertArg(t, NoInfo)
          \/ \E layout \in RegionLayouts : \E r \in ResultsOf(layout) :
                 arg = CertArg(t, MediaInfoOf(r))
    /\ result = Pending

RenderCertification ==
    /\ arg.cell = "certification"
    /\ result = Pending
    /\ result' = CertificationCell(arg.type, arg.mediaInfo)
    /\ UNCHANGED <<compVars, arg>>

NextCert == RenderCertification

SpecCert == InitCert /\ [][NextCert]_vars

\* ------------------------------------------------------------- properties

\* C1 (as stated): while isVisible is true, every mousedown outside the modal
\* root invokes onClose exactly once and every mousedown inside it invokes
\* onClose zero times, in every reachable state.
C1_CloseOnEveryOutsideClick ==
    [][(ev'.name = "mousedown" /\ mounted /\ isVisible)
          => /\ (ev'.target = "outside" => ev'.calls = 1)
             /\ (ev'.target = "inside" => ev'.calls = 0)]_vars

\* C1 (amended): while isVisible is true and the modal root element is
\* rendered (modalRef.current is set), every mousedown outside the root
\* invokes onClose exactly once and every mousedown inside it zero times.
C1_CloseOnOutsideClickOfRoot ==
    [][(ev'.name = "mousedown" /\ mounted /\ isVisible /\ modalRef)
          => /\ (ev'.target = "outside" => ev'.calls = 1)
             /\ (ev'.target = "inside" => ev'.calls = 0)]_vars

C1_Witness ==
    /\ mounted /\ isVisible /\ modalRef
    /\ data # NullPath
    /\ ev.name = "mousedown" /\ ev.target = "outside" /\ ev.calls = 1

\* C2: once a fetch for the current (id, type, visible) key has failed and the
\* key has not changed since, the visible overlay, re-rendered, shows the
\* error message in place of the body.
C2_ErrorShownAfterFailure ==
    (mounted /\ isVisible /\ failedCur /\ ~dirty) => view = "error"

\* C3: a fetch that settles writes its outcome to state whatever the current
\* props are: a success stores its response in data (or mediaInfo) and
\* clears error, a failure stores its message in error.
C3_StaleResponseStored ==
    [][\A r \in BagToSet(inflight) :
          (ev'.name = "resolve" /\ CopiesIn(r, inflight') < CopiesIn(r, inflight))
             => IF error' = Null
                THEN /\ r.kind = "data" => data' = r.path
                     /\ r.kind = "info" => mediaInfo' = r.path
                ELSE error' = IF r.kind = "data" THEN ErrData ELSE ErrInfo]_vars

\* The body is rendered from the data of an id other than media.id, and no
\* fetch is pending that could replace it.
C3_Witness ==
    /\ mounted /\ isVisible /\ ~dirty /\ view = "body"
    /\ data # NullPath /\ data.id # media.id
    /\ inflight = EmptyBag

\* C4: a fetch is started only by a render that mounts the component or
\* changes media.id, media.type or isVisible, and only with isVisible true;
\* such a render starts exactly one primary fetch, and one certification fetch
\* if and only if media.type is movie or show, both for the new props.
C4_FetchOnlyOnKeyChange ==
    [][LET trigger ==
               /\ mounted' /\ isVisible'
               /\ (~mounted \/ media'.id # media.id \/ media'.type # media.type
                     \/ ~isVisible)
           d == [kind |-> "data", path |-> DataPath(media')]
           i == [kind |-> "info", path |-> InfoPath(media')]
       IN  /\ \A r \in BagToSet(inflight') :
                  CopiesIn(r, inflight') > CopiesIn(r, inflight)
                     => /\ trigger
                        /\ ev'.name = "render"
                        /\ r \in {d, i}
                        /\ CopiesIn(r, inflight') = CopiesIn(r, inflight) + 1
           /\ trigger
                 => /\ CopiesIn(d, inflight') = CopiesIn(d, inflight) + 1
                    /\ (CopiesIn(i, inflight') = CopiesIn(i, inflight) + 1)
                          <=> (media'.type \in {"movie", "show"})]_vars

C4_Witness ==
    /\ mounted /\ isVisible /\ media.type = "other"
    /\ ev.name = "render"
    /\ inflight = SetToBag({[kind |-> "data", path |-> DataPath(media)]})

\* C5: while the component is mounted exactly one mousedown listener of it is
\* registered on the document (the one closing over the current onClose),
\* and none is registered while it is not mounted.
C5_ListenerBalanced ==
    IF mounted
    THEN BagCardinality(listeners) = 1 /\ CopiesIn(onClose, listeners) = 1
    ELSE BagCardinality(listeners) = 0

C5_Witness ==
    /\ mounted /\ ~isVisible
    /\ ev.name = "render" /\ ev.removed = 1 /\ ev.added = 1

\* C6 (as stated): a render that takes isVisible from true to false removes
\* the mousedown listener exactly once.
C6_RemovedOnHide ==
    [][(mounted /\ isVisible /\ mounted' /\ ~isVisible') => ev'.removed = 1]_vars

\* C6 (amended): a render that takes isVisible from true to false with the
\* same onClose removes no listener and leaves the registered listener in
\* place; the listener is removed, exactly once, when the component unmounts.
C6_RemovedOnUnmountOnly ==
    [][/\ (mounted /\ isVisible /\ mounted' /\ ~isVisible' /\ onClose' = onClose)
            => (ev'.removed = 0 /\ listeners' = listeners)
       /\ (mounted /\ ~mounted')
            => (ev'.removed = 1 /\ BagCardinality(listeners') = 0)]_vars

C6_Witness ==
    /\ mounted /\ ~isVisible /\ view \in {"body", "error"}
    /\ ev.name = "render" /\ ev.removed = 0
    /\ BagCardinality(listeners) = 1

\* C7: the certification cell shows, for a movie, the label of the US entry's
\* release with the latest date among those with a non-empty label (the later
\* in order on equal dates) and "Not Rated" without one; for a show, the US
\* entry's rating and "NR" without one; entries of other regions never change
\* it.  (With two US entries the first is the US entry.)
C7_Certification ==
    (arg.cell = "certification" /\ result # Pending) =>
        LET rs == arg.mediaInfo.results
            us == {n \in 1..Len(rs) : rs[n].iso_3166_1 = "US"}
            first == CHOOSE n \in us : \A o \in us : n <= o
            dates == IF us = {} THEN <<>> ELSE rs[first].release_dates
            labelled == {j \in 1..Len(dates) : dates[j].certification # ""}
            best == CHOOSE j \in labelled : \A k \in labelled :
                        \/ DateValue(dates[k].release_date)
                               < DateValue(dates[j].release_date)
                        \/ /\ DateValue(dates[k].release_date)
                                  = DateValue(dates[j].release_date)
                           /\ k <= j
            IsUS(e) == e.iso_3166_1 = "US"
            usOnly == [arg.mediaInfo EXCEPT !.results = SelectSeq(rs, IsUS)]
        IN  /\ arg.type = "movie" =>
                  result = IF labelled = {} THEN "Not Rated"
                           ELSE dates[best].certification
            /\ arg.type = "show" =>
                  result = IF us # {} /\ rs[first].rating # ""
                           THEN rs[first].rating
                           ELSE "NR"
            /\ result = CertificationCell(arg.type, usOnly)

\* A movie whose US entry, after an FR entry, has two labelled releases of the
\* same date: the second one's label is shown.
C7_Witness ==
    /\ arg.cell = "certification" /\ arg.type = "movie"
    /\ Len(arg.mediaInfo.results) = 2
    /\ arg.mediaInfo.results[1].iso_3166_1 = "FR"
    /\ arg.mediaInfo.results[1].release_dates
           = <<[certification |-> "R",
                release_date |-> "2020-07-15T00:00:00.000Z"]>>
    /\ arg.mediaInfo.results[2].iso_3166_1 = "US"
    /\ arg.mediaInfo.results[2].release_dates
           = <<[certification |-> "R",
                release_date |-> "2019-03-01T00:00:00.000Z"],
               [certification |-> "PG",
                release_date |-> "2019-03-01T00:00:00.000Z"]>>
    /\ result = "PG"

\* C8: a positive runtime r is shown as "<h>h <m>m" with 60h + m = r and
\* 0 <= m < 60 when h > 0, and as "<m>m" when h = 0; 125 gives "2h 5m" and
\* 45 gives "45m".
C8_FormatRuntime ==
    (arg.cell = "runtime" /\ result # Pending /\ arg.type = "movie"
        /\ arg.data.has /\ arg.data.runtime > 0) =>
        /\ \E h \in 0..MaxRuntime, m \in 0..59 :
              /\ 60 * h + m = arg.data.runtime
              /\ result = IF h > 0
                          THEN ToString(h) \o "h " \o ToString(m) \o "m"
                          ELSE ToString(m) \o "m"
        /\ arg.data.runtime = 125 => result = "2h 5m"
        /\ arg.data.runtime = 45 => result = "45m"

C8_Witness ==
    /\ arg.cell = "runtime" /\ arg.type = "movie"
    /\ arg.data.runtime = 125
    /\ result = "2h 5m"

\* C9: the fade state follows isVisible alone (visible with opacity 1 when it
\* is true, hidden when it is false); while isVisible is true the component
\* renders the body or the error; the render that takes isVisible from true to
\* false still renders the contents, with the fade state still visible, and
\* its effect sets the fade state to hidden; every later render with isVisible
\* still false renders nothing.
C9_Fade ==
    /\ [](mounted => style = IF isVisible THEN Shown ELSE Hidden)
    /\ []((mounted /\ isVisible) => view \in {"body", "error"})
    /\ [][(mounted /\ isVisible /\ mounted' /\ ~isVisible')
             => /\ style.visibility = "visible"
                /\ view' \in {"body", "error"}
                /\ style' = Hidden]_vars
    /\ [][(mounted /\ ~isVisible /\ mounted' /\ ~isVisible' /\ ev'.name = "render")
             => view' = "null"]_vars
    /\ [][(mounted' /\ ev'.name # "render") => view' = view]_vars

C9_Witness ==
    /\ mounted /\ ~isVisible /\ view = "body"
    /\ style = Hidden /\ dirty
    /\ ev.name = "render"

\* C10: a mousedown invokes onClose only while the modal root element is
\* rendered: never while the component renders nothing and never while it
\* renders the error message.
C10_NoCloseWithoutRoot ==
    [][ev'.name = "mousedown"
          => /\ ev'.calls > 0 => (modalRef /\ view = "body")
             /\ view \in {"none", "null", "error"} => ev'.calls = 0]_vars

\* A mousedown while the error message is shown, the listener registered.
C10_Witness ==
    /\ mounted /\ isVisible /\ view = "error"
    /\ BagCardinality(listeners) = 1
    /\ ev.name = "mousedown" /\ ev.calls = 0

=============================================================================
